---- MODULE Spec2Model ----
(***************************************************************************)
(* Exercise analysis engine of backend/exercises: the phase clock, the     *)
(* confidence gate and the three rep detectors (shoulder squeezes, neck    *)
(* rotations, ankle circles), together with the exercise registry.         *)
(*                                                                         *)
(* Units.  Pixel coordinates are integers.  Confidences are integers in    *)
(* hundredths (0.6 is 60); the confidence an analysis reports is           *)
(* min(confidence) * 100, i.e. the same integer.  Angles are integers in   *)
(* degrees (math.pi is 180); bearings are modelled for the eight compass   *)
(* directions and the zero vector, where atan2 is an exact multiple of     *)
(* pi/4.  The neck detector's nose offset is kept in half pixels           *)
(* (nose_offset_x2) because the shoulder midpoint is a division by two.    *)
(* Python's None is the empty tuple and a present value v is <<v>>.        *)
(***************************************************************************)
EXTENDS Integers, Sequences, FiniteSets, TLC

VARIABLES
    ex,              \* the detector of the session (NoExercise before get_exercise)
    last_rep_count,  \* rep_count of the analysis the last analyze call returned
    err,             \* the error the last get_exercise call raised, "" if none
    clock,           \* argument and result of the last update_phase call
    fed,             \* elapsed times of the script frames fed so far
    peer,            \* a second detector, of a session of its own
    squeeze_entries, \* frames so far that set in_squeeze from false to true
    pcs,             \* server: the peer connections kept in memory
    current_data_channel,  \* server: the global data channel reference
    pose_tracks,     \* server: the PoseTrack objects created by on_track
    sent,            \* keypoint messages sent so far: source and channel
    agent_voice_coach,  \* server: the global AgentVoiceCoach instance
    handlers,        \* position of each /voice-coach-agents handler
    replies          \* what each voice session was last sent for its audio

\* the server state of the WebRTC endpoint and of the voice endpoint
rtc == <<pcs, current_data_channel, pose_tracks, sent>>

voice == <<agent_voice_coach, handlers, replies>>

\* the detector sessions
detectors == <<ex, last_rep_count, err, clock, fed, peer, squeeze_entries>>

vars == <<ex, last_rep_count, err, clock, fed, peer, squeeze_entries,
          pcs, current_data_channel, pose_tracks, sent,
          agent_voice_coach, handlers, replies>>

None == <<>>

Some(v) == <<v>>

----------------------------------------------------------------------------
(* Bounds of the model *)

\* largest value a rep counter is allowed to reach
MaxReps == 2

\* the phase clock is read from ClockSlack seconds before the session starts
\* to ClockSlack seconds after the last phase ends
ClockSlack == 3

\* largest number of samples the ankle angle history is allowed to reach
MaxHist == 5

\* ankle calls that change nothing but the cached phase and the angle history
\* are explored on detectors whose history holds at most this many samples
MaxIdleHist == 1

\* the long ankle session lets the angle history grow this many samples past
\* the length the Active branch trims it to
HistSlack == 2

\* number of peer connections the server is offered
MaxPeers == 2

\* number of /voice-coach-agents websocket sessions the server accepts
MaxSessions == 2

----------------------------------------------------------------------------
(* ExercisePhase *)

NOT_STARTED == "not_started"

SETUP == "setup"

ACTIVE == "active"

COOLDOWN == "cooldown"

COMPLETED == "completed"

ExercisePhase == {NOT_STARTED, SETUP, ACTIVE, COOLDOWN, COMPLETED}

(* KeypointIndex *)

NOSE == 0

LEFT_SHOULDER == 5

RIGHT_SHOULDER == 6

LEFT_KNEE == 13

RIGHT_KNEE == 14

LEFT_ANKLE == 15

RIGHT_ANKLE == 16

KeypointIndices == 0..16

----------------------------------------------------------------------------
(* BaseExercise *)

\* the fields BaseExercise.__init__ sets
BaseInit ==
    [ rep_count |-> 0,
      start_time |-> None,
      phase |-> NOT_STARTED,
      confidence_threshold |-> 60,
      phase_durations |-> << [phase |-> SETUP, duration |-> 120],
                             [phase |-> ACTIVE, duration |-> 120],
                             [phase |-> COOLDOWN, duration |-> 60] >> ]

\* PhaseLoop with the boundary given to the earlier phase
RECURSIVE PhaseLoopInclusive(_, _, _, _)
PhaseLoopInclusive(durations, i, cumulative_time, elapsed_time) ==
    IF i > Len(durations)
    THEN COMPLETED
    ELSE LET c == cumulative_time + durations[i].duration
         IN  IF elapsed_time <= c
             THEN durations[i].phase
             ELSE PhaseLoopInclusive(durations, i + 1, c, elapsed_time)

\* PhaseLoop starting the table again once its last phase has ended
RECURSIVE PhaseLoopWrapping(_, _, _, _)
PhaseLoopWrapping(durations, i, cumulative_time, elapsed_time) ==
    IF i > Len(durations)
    THEN durations[1].phase
    ELSE LET c == cumulative_time + durations[i].duration
         IN  IF elapsed_time < c
             THEN durations[i].phase
             ELSE PhaseLoopWrapping(durations, i + 1, c, elapsed_time)

\* the for loop of update_phase, entered at table entry i
RECURSIVE PhaseLoop(_, _, _, _)
PhaseLoop(durations, i, cumulative_time, elapsed_time) ==
    IF i > Len(durations)
    THEN COMPLETED
    ELSE LET c == cumulative_time + durations[i].duration
         IN  IF elapsed_time < c
             THEN durations[i].phase
             ELSE PhaseLoop(durations, i + 1, c, elapsed_time)

\* update_phase answering a negative elapsed time with the cached phase
update_phase_cached(self, elapsed_time) ==
    IF elapsed_time < 0
    THEN [self |-> self, phase |-> self.phase]
    ELSE LET p == PhaseLoop(self.phase_durations, 1, 0, elapsed_time)
         IN  [self |-> [self EXCEPT !.phase = p], phase |-> p]

\* update_phase: the phase returned and the detector with its cached phase
update_phase(self, elapsed_time) ==
    IF elapsed_time < 0
    THEN [self |-> self, phase |-> NOT_STARTED]
    ELSE LET p == PhaseLoop(self.phase_durations, 1, 0, elapsed_time)
         IN  [self |-> [self EXCEPT !.phase = p], phase |-> p]

\* check_confidence passing as soon as one required keypoint is confident
check_confidence_any(self, confidence, required_indices) ==
    \E n \in DOMAIN required_indices :
        ~(confidence[required_indices[n]] < self.confidence_threshold)

\* check_confidence turning away a keypoint exactly at the threshold
check_confidence_strict(self, confidence, required_indices) ==
    \A n \in DOMAIN required_indices :
        ~(confidence[required_indices[n]] <= self.confidence_threshold)

\* check_confidence; required_indices is the list required_keypoints returns
check_confidence(self, confidence, required_indices) ==
    \A n \in DOMAIN required_indices :
        ~(confidence[required_indices[n]] < self.confidence_threshold)

\* min(confidence[required_keypoints]) * 100, from list position n on
RECURSIVE MinFrom(_, _, _)
MinFrom(confidence, required_indices, n) ==
    IF n = Len(required_indices)
    THEN confidence[required_indices[n]]
    ELSE LET m == MinFrom(confidence, required_indices, n + 1)
             c == confidence[required_indices[n]]
         IN  IF c < m THEN c ELSE m

\* the largest instead of the smallest confidence among the required keypoints
RECURSIVE MaxFrom(_, _, _)
MaxFrom(confidence, required_indices, n) ==
    IF n = Len(required_indices)
    THEN confidence[required_indices[n]]
    ELSE LET m == MaxFrom(confidence, required_indices, n + 1)
             c == confidence[required_indices[n]]
         IN  IF c > m THEN c ELSE m

MaxOver(confidence, required_indices) == MaxFrom(confidence, required_indices, 1)

MinOver(confidence, required_indices) == MinFrom(confidence, required_indices, 1)

Abs(x) == IF x < 0 THEN -x ELSE x

Msg(text) == <<text>>

MsgN(text, n) == <<text, n>>

\* the exercise_specific_data of a gate-failing analysis: {}
EmptyData == [empty |-> TRUE]

----------------------------------------------------------------------------
(* ShoulderSqueezesExercise *)

ShoulderRequired == <<LEFT_SHOULDER, RIGHT_SHOULDER>>

ShoulderInit ==
    [ kind |-> "shoulder_squeezes",
      baseline_distance |-> None,
      in_squeeze |-> FALSE,
      last_distance |-> None ] @@ BaseInit

\* SqueezeAbove20 with the threshold itself counted as a squeeze
SqueezeAtLeast20(baseline, shoulder_distance) ==
    (baseline - shoulder_distance) * 100 >= 20 * baseline

\* squeeze_percent > 20, for a non-zero baseline: the division is exact on
\* the integers of the model, so the comparison is made cross-multiplied
SqueezeAbove20(baseline, shoulder_distance) ==
    (baseline - shoulder_distance) * 100 > 20 * baseline

\* ShoulderActive counting a rep on every squeezed frame, with no in_squeeze
\* hysteresis
ShoulderActiveLevel(self, shoulder_distance) ==
    IF self.baseline_distance # None /\ self.baseline_distance[1] # 0
    THEN IF SqueezeAbove20(self.baseline_distance[1], shoulder_distance)
         THEN [self |-> [self EXCEPT !.rep_count = @ + 1, !.in_squeeze = TRUE],
               msgs |-> <<MsgN("Rep complete!", self.rep_count + 1)>>,
               form_score |-> 90]
         ELSE [self |-> [self EXCEPT !.in_squeeze = FALSE],
               msgs |-> <<Msg("Squeeze your shoulder blades together")>>,
               form_score |-> 60]
    ELSE [self |-> self, msgs |-> <<>>, form_score |-> 70]

\* ShoulderActive adding the squeeze bonus to the score of a held squeeze
\* instead of replacing it
ShoulderActiveBonus(self, shoulder_distance) ==
    IF self.baseline_distance # None /\ self.baseline_distance[1] # 0
    THEN IF SqueezeAbove20(self.baseline_distance[1], shoulder_distance)
         THEN IF ~self.in_squeeze
              THEN [self |-> [self EXCEPT !.in_squeeze = TRUE],
                    msgs |-> <<Msg("Good squeeze! Hold for 2 seconds")>>,
                    form_score |-> 90]
              ELSE [self |-> self,
                    msgs |-> <<Msg("Keep holding the squeeze")>>,
                    form_score |-> 90 + 85]
         ELSE IF self.in_squeeze
              THEN [self |-> [self EXCEPT !.rep_count = @ + 1,
                                          !.in_squeeze = FALSE],
                    msgs |-> <<MsgN("Rep complete!", self.rep_count + 1)>>,
                    form_score |-> 70]
              ELSE [self |-> self,
                    msgs |-> <<Msg("Squeeze your shoulder blades together")>>,
                    form_score |-> 60]
    ELSE [self |-> self, msgs |-> <<>>, form_score |-> 70]

\* HasBaseline taking a baseline of 0 for a usable one
HasBaselineOrZero(self) == self.baseline_distance # None

\* the truth value of self.baseline_distance: false for None and for 0
HasBaseline(self) ==
    self.baseline_distance # None /\ self.baseline_distance[1] # 0

\* the ACTIVE branch of ShoulderSqueezesExercise.analyze
ShoulderActive(self, shoulder_distance) ==
    IF HasBaseline(self)
    THEN IF SqueezeAbove20(self.baseline_distance[1], shoulder_distance)
         THEN IF ~self.in_squeeze
              THEN [self |-> [self EXCEPT !.in_squeeze = TRUE],
                    msgs |-> <<Msg("Good squeeze! Hold for 2 seconds")>>,
                    form_score |-> 90]
              ELSE [self |-> self,
                    msgs |-> <<Msg("Keep holding the squeeze")>>,
                    form_score |-> 85]
         ELSE IF self.in_squeeze
              THEN [self |-> [self EXCEPT !.rep_count = @ + 1,
                                          !.in_squeeze = FALSE],
                    msgs |-> <<MsgN("Rep complete!", self.rep_count + 1)>>,
                    form_score |-> 70]
              ELSE [self |-> self,
                    msgs |-> <<Msg("Squeeze your shoulder blades together")>>,
                    form_score |-> 60]
    ELSE [self |-> self, msgs |-> <<>>, form_score |-> 70]

\* BaselineOpen taking the baseline once only
BaselineOpenOnce(self, elapsed_time) == self.baseline_distance = None

\* BaselineOpen letting every Setup frame assign the baseline
BaselineOpenAlways(self, elapsed_time) == TRUE

\* the condition under which a Setup frame assigns the baseline
BaselineOpen(self, elapsed_time) ==
    self.baseline_distance = None \/ elapsed_time < 10

\* ShoulderSqueezesExercise.analyze
ShoulderAnalyze(self0, keypoints, confidence, elapsed_time) ==
    LET up == update_phase(self0, elapsed_time)
        self == up.self
        phase == up.phase
    IN  IF ~check_confidence(self, confidence, ShoulderRequired)
        THEN [self |-> self,
              ret |-> [exercise_name |-> "Shoulder Squeezes",
                       phase |-> phase,
                       form_score |-> 0,
                       feedback_messages |-> <<Msg("Cannot see shoulders clearly")>>,
                       rep_count |-> self.rep_count,
                       is_proper_position |-> FALSE,
                       confidence |-> 0,
                       exercise_specific_data |-> EmptyData]]
        ELSE LET shoulder_distance ==
                     Abs(keypoints[LEFT_SHOULDER][1] - keypoints[RIGHT_SHOULDER][1])
                 br == CASE phase = SETUP ->
                               IF BaselineOpen(self, elapsed_time)
                               THEN [self |-> [self EXCEPT !.baseline_distance =
                                                               Some(shoulder_distance)],
                                     msgs |-> <<Msg("Stand tall with shoulders relaxed")>>,
                                     form_score |-> 70]
                               ELSE [self |-> self,
                                     msgs |-> <<Msg("Get ready to squeeze your shoulder blades")>>,
                                     form_score |-> 70]
                         [] phase = ACTIVE -> ShoulderActive(self, shoulder_distance)
                         [] phase = COOLDOWN ->
                               [self |-> self,
                                msgs |-> <<MsgN("Great work! You completed shoulder squeezes",
                                                self.rep_count)>>,
                                form_score |-> 85]
                         [] OTHER -> [self |-> self, msgs |-> <<>>, form_score |-> 70]
             IN  [self |-> br.self,
                  ret |-> [exercise_name |-> "Shoulder Squeezes",
                           phase |-> phase,
                           form_score |-> br.form_score,
                           feedback_messages |-> br.msgs,
                           rep_count |-> br.self.rep_count,
                           is_proper_position |-> TRUE,
                           confidence |-> MinOver(confidence, ShoulderRequired),
                           exercise_specific_data |->
                               [shoulder_distance |-> shoulder_distance,
                                baseline_distance |-> br.self.baseline_distance,
                                in_squeeze |-> br.self.in_squeeze]]]

----------------------------------------------------------------------------
(* NeckRotationsExercise *)

NeckRequired == <<NOSE, LEFT_SHOULDER, RIGHT_SHOULDER>>

NeckInit ==
    [ kind |-> "neck_rotations",
      shoulder_midpoint_x |-> None,
      last_nose_x |-> None,
      rotation_direction |-> None,
      left_rotations |-> 0,
      right_rotations |-> 0,
      rotation_threshold |-> 30 ] @@ BaseInit

\* NoseOffsetX2 measured from the nose to the midpoint, the sign reversed
NoseOffsetMirrored(keypoints) ==
    (keypoints[LEFT_SHOULDER][1] + keypoints[RIGHT_SHOULDER][1]) - 2 * keypoints[NOSE][1]

\* nose[0] - (left_shoulder[0] + right_shoulder[0]) / 2, in half pixels
NoseOffsetX2(keypoints) ==
    2 * keypoints[NOSE][1] - (keypoints[LEFT_SHOULDER][1] + keypoints[RIGHT_SHOULDER][1])

\* elapsed_time < 180 with the boundary given to the left window
LeftWindowInclusive(elapsed_time) == elapsed_time <= 180

\* the condition selecting the left-rotation logic: elapsed_time < 180
LeftWindow(elapsed_time) == elapsed_time < 180

\* AwayFrom taking no excursion for one to the other side, so that it is
\* handled as a return to the dead zone
AwayFromNever(self, target, nose_offset_x2) == FALSE

\* the elif of each half of the ACTIVE branch: the nose is beyond the
\* threshold on the side opposite to the target of the half
AwayFrom(self, target, nose_offset_x2) ==
    IF target = "left"
    THEN nose_offset_x2 > 2 * self.rotation_threshold
    ELSE nose_offset_x2 < -(2 * self.rotation_threshold)

\* the ACTIVE branch of NeckRotationsExercise.analyze
NeckActive(self, nose_offset_x2, elapsed_time) ==
    IF LeftWindow(elapsed_time)
    THEN IF nose_offset_x2 < -(2 * self.rotation_threshold)
         THEN IF self.rotation_direction # Some("left")
              THEN [self |-> [self EXCEPT !.left_rotations = @ + 1,
                                          !.rotation_direction = Some("left")],
                    msgs |-> <<MsgN("Left rotation", self.left_rotations + 1)>>,
                    form_score |-> 90]
              ELSE [self |-> self,
                    msgs |-> <<Msg("Good left rotation, now slowly return to center")>>,
                    form_score |-> 85]
         ELSE IF AwayFrom(self, "left", nose_offset_x2)
              THEN [self |-> self,
                    msgs |-> <<Msg("Focus on rotating to your left for now")>>,
                    form_score |-> 60]
              ELSE [self |-> [self EXCEPT !.rotation_direction = None],
                    msgs |-> <<Msg("Now rotate your head to the left")>>,
                    form_score |-> 70]
    ELSE IF nose_offset_x2 > 2 * self.rotation_threshold
         THEN IF self.rotation_direction # Some("right")
              THEN [self |-> [self EXCEPT !.right_rotations = @ + 1,
                                          !.rotation_direction = Some("right")],
                    msgs |-> <<MsgN("Right rotation", self.right_rotations + 1)>>,
                    form_score |-> 90]
              ELSE [self |-> self,
                    msgs |-> <<Msg("Good right rotation, now slowly return to center")>>,
                    form_score |-> 85]
         ELSE IF AwayFrom(self, "right", nose_offset_x2)
              THEN [self |-> self,
                    msgs |-> <<Msg("Focus on rotating to your right for now")>>,
                    form_score |-> 60]
              ELSE [self |-> [self EXCEPT !.rotation_direction = None],
                    msgs |-> <<Msg("Now rotate your head to the right")>>,
                    form_score |-> 70]

\* TotalRotations leaving out the rotations to the right
TotalRotationsLeft(self) == self.left_rotations

\* the rep count of the neck detector: left_rotations + right_rotations
TotalRotations(self) == self.left_rotations + self.right_rotations

\* NeckRotationsExercise.analyze
NeckAnalyze(self0, keypoints, confidence, elapsed_time) ==
    LET up == update_phase(self0, elapsed_time)
        self == up.self
        phase == up.phase
    IN  IF ~check_confidence(self, confidence, NeckRequired)
        THEN [self |-> self,
              ret |-> [exercise_name |-> "Neck Rotations",
                       phase |-> phase,
                       form_score |-> 0,
                       feedback_messages |-> <<Msg("Cannot see face and shoulders clearly")>>,
                       rep_count |-> TotalRotations(self),
                       is_proper_position |-> FALSE,
                       confidence |-> 0,
                       exercise_specific_data |-> EmptyData]]
        ELSE LET shoulder_midpoint_x2 ==
                     keypoints[LEFT_SHOULDER][1] + keypoints[RIGHT_SHOULDER][1]
                 nose_offset_x2 == NoseOffsetX2(keypoints)
                 br == CASE phase = SETUP ->
                               [self |-> [self EXCEPT !.shoulder_midpoint_x =
                                                          Some(shoulder_midpoint_x2)],
                                msgs |-> <<Msg("Keep your shoulders still, only move your head")>>,
                                form_score |-> 70]
                         [] phase = ACTIVE -> NeckActive(self, nose_offset_x2, elapsed_time)
                         [] phase = COOLDOWN ->
                               [self |-> self,
                                msgs |-> <<<<"Excellent! left, right rotations",
                                             self.left_rotations, self.right_rotations>>>>,
                                form_score |-> 85]
                         [] OTHER -> [self |-> self, msgs |-> <<>>, form_score |-> 70]
                 self2 == [br.self EXCEPT !.rep_count = TotalRotations(br.self)]
             IN  [self |-> self2,
                  ret |-> [exercise_name |-> "Neck Rotations",
                           phase |-> phase,
                           form_score |-> br.form_score,
                           feedback_messages |-> br.msgs,
                           rep_count |-> self2.rep_count,
                           is_proper_position |-> TRUE,
                           confidence |-> MinOver(confidence, NeckRequired),
                           exercise_specific_data |->
                               [nose_offset_x2 |-> nose_offset_x2,
                                left_rotations |-> self2.left_rotations,
                                right_rotations |-> self2.right_rotations,
                                rotation_direction |-> self2.rotation_direction]]]

----------------------------------------------------------------------------
(* AnkleCirclesExercise *)

AnkleRequired == <<LEFT_ANKLE, RIGHT_ANKLE, LEFT_KNEE, RIGHT_KNEE>>

\* the length the ACTIVE branch trims the angle history to
AngleHistoryLimit == 100

AnkleInit ==
    [ kind |-> "ankle_circles",
      angle_history |-> <<>>,
      circle_count |-> 0,
      last_quadrant |-> None,
      quadrant_visits |-> <<>>,
      active_ankle |-> "right" ] @@ BaseInit

Sign(x) == IF x > 0 THEN 1 ELSE IF x < 0 THEN -1 ELSE 0

\* math.atan2(dy, dx) in degrees, for the zero vector and the eight compass
\* directions (dx = 0, dy = 0 or |dx| = |dy|): a value in (-180, 180]
Atan2Deg(dy, dx) ==
    CASE dy = 0 /\ dx >= 0 -> 0
      [] dy = 0 /\ dx < 0 -> 180
      [] dx = 0 -> 90 * Sign(dy)
      [] dx > 0 -> 45 * Sign(dy)
      [] OTHER -> 135 * Sign(dy)

\* _calculate_ankle_angle
calculate_ankle_angle(ankle, knee) ==
    LET dx == ankle[1] - knee[1]
        dy == ankle[2] - knee[2]
    IN  Atan2Deg(dy, dx)

\* get_quadrant reading the angle as atan2 returns it, without the
\* normalization into [0, 360)
get_quadrant_unnormalized(angle) ==
    IF angle < 90 THEN 1
    ELSE IF angle < 180 THEN 2
    ELSE IF angle < 270 THEN 3
    ELSE 4

\* _get_quadrant; Python's % with a positive modulus is never negative, as %
\* of TLA+
get_quadrant(angle) ==
    LET normalized == angle % 360
    IN  IF normalized < 90 THEN 1
        ELSE IF normalized < 180 THEN 2
        ELSE IF normalized < 270 THEN 3
        ELSE 4

LastN(s, n) == SubSeq(s, Len(s) - n + 1, Len(s))

SeqRange(s) == {s[i] : i \in DOMAIN s}

\* detect_circle_completion leaving the quadrant log as it is on completion
detect_circle_completion_keep(self, quadrant) ==
    LET logs == self.last_quadrant # None /\ Some(quadrant) # self.last_quadrant
        visits == IF logs THEN Append(self.quadrant_visits, quadrant)
                  ELSE self.quadrant_visits
        full == /\ logs
                /\ Len(visits) >= 4
                /\ Cardinality(SeqRange(LastN(visits, 4))) = 4
    IN  IF full
        THEN [self |-> [self EXCEPT !.circle_count = @ + 1,
                                    !.quadrant_visits = visits],
              result |-> TRUE]
        ELSE [self |-> [self EXCEPT !.quadrant_visits = visits,
                                    !.last_quadrant = Some(quadrant)],
              result |-> FALSE]

\* _detect_circle_completion: the value returned and the detector afterwards
detect_circle_completion(self, quadrant) ==
    LET logs == self.last_quadrant # None /\ Some(quadrant) # self.last_quadrant
        visits == IF logs THEN Append(self.quadrant_visits, quadrant)
                  ELSE self.quadrant_visits
        full == /\ logs
                /\ Len(visits) >= 4
                /\ Cardinality(SeqRange(LastN(visits, 4))) = 4
    IN  IF full
        THEN [self |-> [self EXCEPT !.circle_count = @ + 1,
                                    !.quadrant_visits = <<>>],
              result |-> TRUE]
        ELSE [self |-> [self EXCEPT !.quadrant_visits = visits,
                                    !.last_quadrant = Some(quadrant)],
              result |-> FALSE]

\* SwitchAnkle keeping the circles counted on the right ankle
SwitchAnkleNoReset(self, elapsed_time) ==
    IF elapsed_time > 180 /\ self.active_ankle = "right"
    THEN [self |-> [self EXCEPT !.active_ankle = "left",
                                !.quadrant_visits = <<>>,
                                !.last_quadrant = None],
          switched |-> TRUE]
    ELSE [self |-> self, switched |-> FALSE]

\* SwitchAnkle resetting the bookkeeping without recording the new ankle
SwitchAnkleForgetful(self, elapsed_time) ==
    IF elapsed_time > 180 /\ self.active_ankle = "right"
    THEN [self |-> [self EXCEPT !.circle_count = 0,
                                !.quadrant_visits = <<>>,
                                !.last_quadrant = None],
          switched |-> TRUE]
    ELSE [self |-> self, switched |-> FALSE]

\* SwitchAnkle starting afresh on every frame after 180 s, whichever ankle
\* is active
SwitchAnkleRepeated(self, elapsed_time) ==
    IF elapsed_time > 180
    THEN [self |-> [self EXCEPT !.active_ankle = "left",
                                !.circle_count = 0,
                                !.quadrant_visits = <<>>,
                                !.last_quadrant = None],
          switched |-> TRUE]
    ELSE [self |-> self, switched |-> FALSE]

\* the switch of AnkleActive: after 180 s the right ankle hands over to the
\* left one and the circle bookkeeping starts afresh
SwitchAnkle(self, elapsed_time) ==
    IF elapsed_time > 180 /\ self.active_ankle = "right"
    THEN [self |-> [self EXCEPT !.active_ankle = "left",
                                !.circle_count = 0,
                                !.quadrant_visits = <<>>,
                                !.last_quadrant = None],
          switched |-> TRUE]
    ELSE [self |-> self, switched |-> FALSE]

\* the ACTIVE branch of AnkleCirclesExercise.analyze
AnkleActive(self, current_angle, current_quadrant, elapsed_time) ==
    LET appended == Append(self.angle_history, current_angle)
        history == IF Len(appended) > AngleHistoryLimit THEN Tail(appended)
                   ELSE appended
        dc == detect_circle_completion([self EXCEPT !.angle_history = history],
                                       current_quadrant)
        msgs1 == IF dc.result
                 THEN <<MsgN("Circle complete!", dc.self.circle_count)>>
                 ELSE CASE current_quadrant = 1 -> <<Msg("Moving forward and out")>>
                        [] current_quadrant = 2 -> <<Msg("Moving back and out")>>
                        [] current_quadrant = 3 -> <<Msg("Moving back and in")>>
                        [] OTHER -> <<Msg("Moving forward and in")>>
        form_score == IF dc.result THEN 90 ELSE 75
        sw == SwitchAnkle(dc.self, elapsed_time)
    IN  [self |-> sw.self,
         msgs |-> IF sw.switched
                  THEN Append(msgs1, Msg("Switch to left ankle circles"))
                  ELSE msgs1,
         form_score |-> form_score]

\* AnkleCirclesExercise.analyze
AnkleAnalyze(self0, keypoints, confidence, elapsed_time) ==
    LET up == update_phase(self0, elapsed_time)
        self == up.self
        phase == up.phase
    IN  IF ~check_confidence(self, confidence, AnkleRequired)
        THEN [self |-> self,
              ret |-> [exercise_name |-> "Ankle Circles",
                       phase |-> phase,
                       form_score |-> 0,
                       feedback_messages |-> <<Msg("Cannot see ankles and knees clearly")>>,
                       rep_count |-> self.circle_count,
                       is_proper_position |-> FALSE,
                       confidence |-> 0,
                       exercise_specific_data |-> EmptyData]]
        ELSE LET ankle == IF self.active_ankle = "right" THEN keypoints[RIGHT_ANKLE]
                          ELSE keypoints[LEFT_ANKLE]
                 knee == IF self.active_ankle = "right" THEN keypoints[RIGHT_KNEE]
                         ELSE keypoints[LEFT_KNEE]
                 current_angle == calculate_ankle_angle(ankle, knee)
                 current_quadrant == get_quadrant(current_angle)
                 br == CASE phase = SETUP ->
                               [self |-> [self EXCEPT !.angle_history =
                                                          Append(@, current_angle)],
                                msgs |-> <<<<"Lift your foot slightly and prepare to make circles",
                                             self.active_ankle>>>>,
                                form_score |-> 70]
                         [] phase = ACTIVE ->
                               AnkleActive(self, current_angle, current_quadrant,
                                           elapsed_time)
                         [] phase = COOLDOWN ->
                               [self |-> self,
                                msgs |-> <<MsgN("Great job! You completed ankle circles",
                                                self.circle_count)>>,
                                form_score |-> 85]
                         [] OTHER -> [self |-> self, msgs |-> <<>>, form_score |-> 70]
                 self2 == [br.self EXCEPT !.rep_count = br.self.circle_count]
             IN  [self |-> self2,
                  ret |-> [exercise_name |-> "Ankle Circles",
                           phase |-> phase,
                           form_score |-> br.form_score,
                           feedback_messages |-> br.msgs,
                           rep_count |-> self2.rep_count,
                           is_proper_position |-> TRUE,
                           confidence |-> MinOver(confidence, AnkleRequired),
                           exercise_specific_data |->
                               [current_angle |-> current_angle,
                                current_quadrant |-> current_quadrant,
                                active_ankle |-> self2.active_ankle,
                                angle_history_length |-> Len(self2.angle_history)]]]

----------------------------------------------------------------------------
(* Exercise registry *)

EXERCISES == {"shoulder_squeezes", "neck_rotations", "ankle_circles"}

\* the constructor EXERCISES maps an identifier to
Construct(exercise_type) ==
    CASE exercise_type = "shoulder_squeezes" -> ShoulderInit
      [] exercise_type = "neck_rotations" -> NeckInit
      [] exercise_type = "ankle_circles" -> AnkleInit

\* no detector constructed yet
NoExercise == [kind |-> "none"]

\* identifiers get_exercise is called with: the registered ones, one that
\* differs from a registered one in case only, an unregistered one, the
\* empty string
ExerciseTypes == EXERCISES \cup {"Shoulder_Squeezes", "jumping_jacks", ""}

----------------------------------------------------------------------------
(* Inputs: frames of the pose source and elapsed times of the caller *)

\* one elapsed time on each side of every comparison the detectors make
ElapsedTimes == {-1, 9, 10, 179, 180, 181, 240, 300}

\* the ankle detector compares elapsed_time with the phase boundaries and
\* with 180 only: 10 and 179 fall where 9 and 180 do
AnkleTimes == ElapsedTimes \ {10, 179}

TimesOf(kind) == IF kind = "ankle_circles" THEN AnkleTimes ELSE ElapsedTimes

Pose(left_shoulder_x, nose_x, ankle_dx, ankle_dy) ==
    [i \in KeypointIndices |->
        CASE i = NOSE -> <<nose_x, 0>>
          [] i = LEFT_SHOULDER -> <<left_shoulder_x, 20>>
          [] i = RIGHT_SHOULDER -> <<100, 20>>
          [] i = LEFT_KNEE -> <<60, 80>>
          [] i = RIGHT_KNEE -> <<40, 80>>
          [] i = LEFT_ANKLE -> <<60 - ankle_dx, 80 + ankle_dy>>
          [] i = RIGHT_ANKLE -> <<40 + ankle_dx, 80 + ankle_dy>>
          [] OTHER -> <<0, 0>>]

\* relaxed shoulders 100 px apart, nose over the shoulder midpoint
RestPose == Pose(0, 50, 1, 1)

\* shoulders squeezed, head turned left, ankles moved on
ActionPose == Pose(25, 10, -1, -1)

ConfAll(c) == [i \in KeypointIndices |-> c]

ConfLow(k) == [i \in KeypointIndices |-> IF i = k THEN 59 ELSE 90]

\* every keypoint confident, each with a confidence of its own
ConfVaried == [i \in KeypointIndices |-> 99 - i]

Frame(p, c) == [keypoints |-> p, confidence |-> c]

\* frames every detector is fed: the gate exactly at the threshold, a low
\* confidence on a keypoint no detector requires, confidences that differ
\* from keypoint to keypoint
CommonFrames ==
    {Frame(RestPose, ConfAll(60)), Frame(ActionPose, ConfLow(1)),
     Frame(RestPose, ConfVaried)}

ShoulderFrames ==
    {Frame(Pose(x, 50, 1, 1), ConfAll(90)) : x \in {0, 20, 25, 100}}
    \cup {Frame(ActionPose, ConfLow(LEFT_SHOULDER)), Frame(RestPose, ConfLow(RIGHT_SHOULDER))}
    \cup CommonFrames

NeckFrames ==
    {Frame(Pose(0, n, 1, 1), ConfAll(90)) : n \in {10, 20, 50, 80, 90}}
    \cup {Frame(ActionPose, ConfLow(NOSE)), Frame(RestPose, ConfLow(LEFT_SHOULDER))}
    \cup CommonFrames

AnkleFrames ==
    {Frame(Pose(0, 50, dx, dy), ConfAll(90)) : dx \in {-1, 1}, dy \in {-1, 1}}
    \cup {Frame(ActionPose, ConfLow(RIGHT_ANKLE))}
    \cup CommonFrames

FramesOf(kind) ==
    CASE kind = "shoulder_squeezes" -> ShoulderFrames
      [] kind = "neck_rotations" -> NeckFrames
      [] kind = "ankle_circles" -> AnkleFrames
      [] OTHER -> {}

\* analyze of the detector's variant
Analyze(self, keypoints, confidence, elapsed_time) ==
    CASE self.kind = "shoulder_squeezes" ->
             ShoulderAnalyze(self, keypoints, confidence, elapsed_time)
      [] self.kind = "neck_rotations" ->
             NeckAnalyze(self, keypoints, confidence, elapsed_time)
      [] self.kind = "ankle_circles" ->
             AnkleAnalyze(self, keypoints, confidence, elapsed_time)

----------------------------------------------------------------------------
(* The session: one detector obtained from the registry, fed frame by frame *)

\* the peer connections and the voice websockets of the model
PeerConnections == 1..MaxPeers

VoiceSessions == 1..MaxSessions

\* AgentVoiceCoach.__init__
AgentVoiceCoachInit == [pipeline |-> None, is_active |-> FALSE]

Init ==
    /\ ex = NoExercise
    /\ last_rep_count = None
    /\ err = ""
    /\ clock = None
    /\ fed = <<>>
    /\ peer = NoExercise
    /\ squeeze_entries = 0
    /\ pcs = {}
    /\ current_data_channel = None
    /\ pose_tracks = {}
    /\ sent = {}
    /\ agent_voice_coach = AgentVoiceCoachInit
    /\ handlers = [s \in VoiceSessions |-> "closed"]
    /\ replies = [s \in VoiceSessions |-> "none"]

\* get_exercise answering an unknown identifier with the first exercise of
\* the registry
GetExerciseDefault(exercise_type) ==
    /\ ex = NoExercise
    /\ IF exercise_type \notin EXERCISES
       THEN /\ ex' = Construct("shoulder_squeezes")
            /\ err' = ""
       ELSE /\ ex' = Construct(exercise_type)
            /\ err' = ""
    /\ UNCHANGED <<last_rep_count, clock, fed, peer, squeeze_entries, rtc, voice>>

\* get_exercise
GetExercise(exercise_type) ==
    /\ ex = NoExercise
    /\ IF exercise_type \notin EXERCISES
       THEN /\ err' = "ValueError"
            /\ ex' = ex
       ELSE /\ ex' = Construct(exercise_type)
            /\ err' = ""
    /\ UNCHANGED <<last_rep_count, clock, fed, peer, squeeze_entries, rtc, voice>>

\* the caller receives the analysis r.ret, the detector is left as r.self
Return(r) ==
    /\ ex' = r.self
    /\ last_rep_count' = Some(r.ret.rep_count)
    /\ UNCHANGED <<err, clock, fed, peer, squeeze_entries, rtc, voice>>

AnalyzeShoulder(keypoints, confidence, elapsed_time) ==
    /\ ex.kind = "shoulder_squeezes"
    /\ LET r == ShoulderAnalyze(ex, keypoints, confidence, elapsed_time)
       IN  /\ r.self.rep_count <= MaxReps
           /\ Return(r)

AnalyzeNeck(keypoints, confidence, elapsed_time) ==
    /\ ex.kind = "neck_rotations"
    /\ LET r == NeckAnalyze(ex, keypoints, confidence, elapsed_time)
       IN  /\ r.self.left_rotations <= MaxReps
           /\ r.self.right_rotations <= MaxReps
           /\ Return(r)

\* the counters and hysteresis state of the ankle detector
AnkleCore(self) ==
    <<self.circle_count, self.last_quadrant, self.quadrant_visits, self.active_ankle>>

AnalyzeAnkle(keypoints, confidence, elapsed_time) ==
    /\ ex.kind = "ankle_circles"
    /\ Len(ex.angle_history) < MaxHist \/ Len(ex.angle_history) <= MaxIdleHist
    /\ LET r == AnkleAnalyze(ex, keypoints, confidence, elapsed_time)
       IN  /\ r.self.circle_count <= MaxReps
           /\ Len(r.self.angle_history) <= MaxHist
           /\ \/ AnkleCore(r.self) # AnkleCore(ex)
              \/ Len(r.self.angle_history) <= MaxIdleHist
           /\ Return(r)

Next ==
    \/ \E exercise_type \in ExerciseTypes : GetExercise(exercise_type)
    \/ /\ ex.kind = "shoulder_squeezes"
       /\ \E f \in ShoulderFrames, t \in ElapsedTimes :
             AnalyzeShoulder(f.keypoints, f.confidence, t)
    \/ /\ ex.kind = "neck_rotations"
       /\ \E f \in NeckFrames, t \in ElapsedTimes :
             AnalyzeNeck(f.keypoints, f.confidence, t)
    \/ /\ ex.kind = "ankle_circles"
       /\ \E f \in AnkleFrames, t \in AnkleTimes :
             AnalyzeAnkle(f.keypoints, f.confidence, t)

Spec == Init /\ [][Next]_vars

----------------------------------------------------------------------------
(* The phase clock alone: update_phase called with any elapsed time *)

ClockTimes == (0 - ClockSlack)..(300 + ClockSlack)

UpdatePhase(elapsed_time) ==
    /\ ex # NoExercise
    /\ LET up == update_phase(ex, elapsed_time)
       IN  /\ ex' = up.self
           /\ clock' = Some([elapsed_time |-> elapsed_time, phase |-> up.phase])
    /\ UNCHANGED <<last_rep_count, err, fed, peer, squeeze_entries, rtc, voice>>

NextClock ==
    \/ \E exercise_type \in ExerciseTypes : GetExercise(exercise_type)
    \/ \E t \in ClockTimes : UpdatePhase(t)

SpecClock == Init /\ [][NextClock]_vars

\* the phase the default duration table assigns to an elapsed time
DefaultPhase(elapsed_time) ==
    IF elapsed_time < 0 THEN NOT_STARTED
    ELSE IF elapsed_time < 120 THEN SETUP
    ELSE IF elapsed_time < 240 THEN ACTIVE
    ELSE IF elapsed_time < 300 THEN COOLDOWN
    ELSE COMPLETED

----------------------------------------------------------------------------
(* Properties *)

\* C1: with the default duration table update_phase returns not_started
\* below 0, setup on [0,120), active on [120,240), cooldown on [240,300) and
\* completed from 300 on, each boundary belonging to the later phase.
C1_PhaseOfElapsed ==
    clock # None => clock[1].phase = DefaultPhase(clock[1].elapsed_time)

\* update_phase has returned for the boundary 240, with cooldown
C1_Witness ==
    clock = Some([elapsed_time |-> 240, phase |-> COOLDOWN])

\* the analysis returned and the detector left by analyze on frame f at time t
Run(self, f, t) == Analyze(self, f.keypoints, f.confidence, t)

\* required_keypoints of the detector's variant
required_keypoints(self) ==
    CASE self.kind = "shoulder_squeezes" -> ShoulderRequired
      [] self.kind = "neck_rotations" -> NeckRequired
      [] self.kind = "ankle_circles" -> AnkleRequired

\* some keypoint the detector requires is reported below 0.6
BelowGate(self, f) ==
    \E k \in SeqRange(required_keypoints(self)) : f.confidence[k] < 60

\* rep_count of the previous analysis, 0 before the first call
PreviousRepCount == IF last_rep_count = None THEN 0 ELSE last_rep_count[1]

\* C2: when a required keypoint has confidence below 0.6, analyze returns
\* form_score 0, is_proper_position false and the rep_count of the previous
\* returned analysis (0 on a first call), for each of the three detectors.
C2_GateFailure ==
    ex # NoExercise =>
        \A f \in FramesOf(ex.kind), t \in TimesOf(ex.kind) :
            BelowGate(ex, f) =>
                LET a == Run(ex, f, t).ret
                IN  /\ a.form_score = 0
                    /\ a.is_proper_position = FALSE
                    /\ a.rep_count = PreviousRepCount

\* a detector that has returned a positive rep_count can be fed a frame with
\* a required keypoint below the gate
C2_Witness ==
    /\ ex # NoExercise
    /\ last_rep_count # None
    /\ last_rep_count[1] >= 1
    /\ \E f \in FramesOf(ex.kind) : BelowGate(ex, f)

\* the frames of a kind on which every required keypoint is at or above 0.6
Passing(self) == {f \in FramesOf(self.kind) : ~BelowGate(self, f)}

\* the elapsed times of the alphabet that fall in the Active phase
ActiveTimes == {t \in ElapsedTimes : 120 <= t /\ t < 240}

\* horizontal distance between the shoulders of a frame
ShoulderDistance(f) ==
    Abs(f.keypoints[LEFT_SHOULDER][1] - f.keypoints[RIGHT_SHOULDER][1])

\* squeeze_percent of the frame against the baseline is above 20:
\* (baseline - distance) / baseline > 1/5
Squeezed(baseline, f) == 5 * ShoulderDistance(f) < 4 * baseline

\* C3: shoulder detector in Active with a positive baseline: over gate-passing
\* frames forming a squeeze (up), a held squeeze (hold), the release (down)
\* and a further relaxed frame (idle), rep_count is unchanged while the
\* squeeze lasts, increases by exactly 1 on the release, in_squeeze is false
\* after it and nothing is counted on the relaxed frame that follows.
C3_OneRepPerCycle ==
    (/\ ex.kind = "shoulder_squeezes"
     /\ ex.baseline_distance # None
     /\ ex.baseline_distance[1] > 0) =>
        LET b == ex.baseline_distance[1]
            P == Passing(ex)
        IN  \A t \in ActiveTimes : \A up \in P :
              Squeezed(b, up) =>
                LET s1 == Run(ex, up, t).self
                IN  /\ s1.in_squeeze
                    /\ s1.rep_count = ex.rep_count
                    /\ \A hold \in P :
                          Squeezed(b, hold) =>
                            LET s2 == Run(s1, hold, t).self
                            IN  /\ s2.in_squeeze
                                /\ s2.rep_count = ex.rep_count
                                /\ \A down \in P :
                                      ~Squeezed(b, down) =>
                                        LET s3 == Run(s2, down, t).self
                                        IN  /\ ~s3.in_squeeze
                                            /\ s3.rep_count = ex.rep_count + 1
                                            /\ \A idle \in P :
                                                  ~Squeezed(b, idle) =>
                                                    LET s4 == Run(s3, idle, t).self
                                                    IN  /\ ~s4.in_squeeze
                                                        /\ s4.rep_count = s3.rep_count

\* a shoulder detector with a positive baseline has counted a rep and is
\* relaxed again, in the Active phase
C3_Witness ==
    /\ ex.kind = "shoulder_squeezes"
    /\ ex.baseline_distance # None
    /\ ex.baseline_distance[1] > 0
    /\ ex.phase = ACTIVE
    /\ ex.rep_count >= 1
    /\ ~ex.in_squeeze

----------------------------------------------------------------------------
(* A scripted neck session: a fresh neck detector is fed gate-passing frames
   with the nose offsets of OffsetScript, each at some elapsed time below
   180 *)

\* nose offsets of the scripted frames, in pixels
OffsetScript == <<0, -40, -40, 0, -40>>

\* elapsed times the script frames are fed at: in Setup and in the left half
\* of Active
ScriptTimes == {0, 9, 120, 150, 179}

\* the gate-passing neck frames whose nose is offset pixels from the midpoint
\* of the shoulders
FramesWithOffset(offset) ==
    {f \in NeckFrames :
        /\ \A k \in {NOSE, LEFT_SHOULDER, RIGHT_SHOULDER} : f.confidence[k] >= 60
        /\ 2 * f.keypoints[NOSE][1]
             - (f.keypoints[LEFT_SHOULDER][1] + f.keypoints[RIGHT_SHOULDER][1])
           = 2 * offset}

\* analyze on the next frame of the script
FeedScript(f, elapsed_time) ==
    /\ ex.kind = "neck_rotations"
    /\ Len(fed) < Len(OffsetScript)
    /\ f \in FramesWithOffset(OffsetScript[Len(fed) + 1])
    /\ LET r == NeckAnalyze(ex, f.keypoints, f.confidence, elapsed_time)
       IN  /\ ex' = r.self
           /\ last_rep_count' = Some(r.ret.rep_count)
    /\ fed' = Append(fed, elapsed_time)
    /\ UNCHANGED <<err, clock, peer, squeeze_entries, rtc, voice>>

NextScript ==
    \/ \E exercise_type \in ExerciseTypes : GetExercise(exercise_type)
    \/ \E f \in NeckFrames, t \in ScriptTimes : FeedScript(f, t)

SpecScript == Init /\ [][NextScript]_vars

\* the whole script has been fed
ScriptDone == ex.kind = "neck_rotations" /\ Len(fed) = Len(OffsetScript)

AnkleActiveTimes == {t \in AnkleTimes : 120 <= t /\ t < 240}

\* the quadrant of the tracked ankle of frame f
TrackedQuadrant(self, f) ==
    IF self.active_ankle = "right"
    THEN get_quadrant(calculate_ankle_angle(f.keypoints[RIGHT_ANKLE],
                                            f.keypoints[RIGHT_KNEE]))
    ELSE get_quadrant(calculate_ankle_angle(f.keypoints[LEFT_ANKLE],
                                            f.keypoints[LEFT_KNEE]))

\* frame f makes the detector log a quadrant transition
LogsTransition(self, f) ==
    /\ self.last_quadrant # None
    /\ self.last_quadrant[1] # TrackedQuadrant(self, f)

\* the log with the quadrant of f appended ends with four distinct quadrants
FourDistinct(self, f) ==
    LET log == Append(self.quadrant_visits, TrackedQuadrant(self, f))
    IN  /\ Len(log) >= 4
        /\ \A i, j \in (Len(log) - 3)..Len(log) : log[i] = log[j] => i = j

\* the circle bookkeeping the completion check is claimed to leave
CountedOrNot(self, f, after) ==
    IF FourDistinct(self, f)
    THEN /\ after.circle_count = self.circle_count + 1
         /\ after.quadrant_visits = <<>>
    ELSE after.circle_count = self.circle_count

\* C6 as stated: on every gate-passing Active frame that logs a quadrant
\* transition, circle_count increases by exactly 1 and the log is emptied
\* when the four most recent entries are distinct, and circle_count is
\* unchanged otherwise.
C6_CircleCounted ==
    ex.kind = "ankle_circles" =>
        \A f \in Passing(ex), t \in AnkleActiveTimes :
            LogsTransition(ex, f) => CountedOrNot(ex, f, Run(ex, f, t).self)

\* the frame is the one that hands over from the right to the left ankle
SwitchingFrame(self, t) == t > 180 /\ self.active_ankle = "right"

\* C6: on a gate-passing Active frame that logs a quadrant transition and
\* does not switch the active ankle, circle_count increases by exactly 1 and
\* the log is emptied when the four most recent entries are distinct, and
\* circle_count is unchanged otherwise; on the switching frame circle_count
\* is 0 and the log empty afterwards.
C6_CircleCountedUnlessSwitch ==
    ex.kind = "ankle_circles" =>
        \A f \in Passing(ex), t \in AnkleActiveTimes :
            LogsTransition(ex, f) =>
                LET after == Run(ex, f, t).self
                IN  IF SwitchingFrame(ex, t)
                    THEN after.circle_count = 0 /\ after.quadrant_visits = <<>>
                    ELSE CountedOrNot(ex, f, after)

\* a circle has been counted from four logged transitions and the log is
\* empty again
C6_Witness ==
    /\ ex.kind = "ankle_circles"
    /\ ex.circle_count = 1
    /\ ex.quadrant_visits = <<>>
    /\ ex.last_quadrant # None
    /\ Len(ex.angle_history) = 5

CountersAndFlags(self) ==
    CASE self.kind = "shoulder_squeezes" -> <<self.rep_count, self.in_squeeze>>
      [] self.kind = "neck_rotations" ->
             <<self.left_rotations, self.right_rotations, self.rotation_direction>>
      [] self.kind = "ankle_circles" -> <<self.circle_count>>

\* C8: for each detector and every reachable state, when analyze is called
\* twice in a row with the same frame and the same elapsed_time, the second
\* call increments no rep counter and flips no hysteresis flag.
C8_SecondCallIdle ==
    ex # NoExercise =>
        \A f \in FramesOf(ex.kind), t \in TimesOf(ex.kind) :
            LET s1 == Run(ex, f, t).self
                s2 == Run(s1, f, t).self
            IN  CountersAndFlags(s2) = CountersAndFlags(s1)

\* the first of two identical calls can count a rep
C8_Witness ==
    /\ ex # NoExercise
    /\ \E f \in FramesOf(ex.kind), t \in TimesOf(ex.kind) :
          LET s1 == Run(ex, f, t).self
          IN  CountersAndFlags(s1)[1] = CountersAndFlags(ex)[1] + 1

\* C9: the rep_count of the returned analyses never decreases from one call
\* to the next, except, for the ankle detector, on the call that switches
\* active_ankle from right to left.
C9_RepCountMonotonic ==
    (ex # NoExercise /\ last_rep_count # None) =>
        \A f \in FramesOf(ex.kind), t \in TimesOf(ex.kind) :
            LET r == Run(ex, f, t)
            IN  \/ r.ret.rep_count >= last_rep_count[1]
                \/ /\ ex.kind = "ankle_circles"
                   /\ ex.active_ankle = "right"
                   /\ r.self.active_ankle = "left"

\* an ankle detector that has returned a positive rep_count can be fed the
\* frame that switches the ankle, which returns a smaller one
C9_Witness ==
    /\ ex.kind = "ankle_circles"
    /\ last_rep_count # None
    /\ last_rep_count[1] >= 1
    /\ \E f \in AnkleFrames, t \in AnkleTimes :
          Run(ex, f, t).ret.rep_count < last_rep_count[1]

\* C10: every analysis returned by a detector, in every phase and whether
\* the confidence gate passes or fails, has 0 <= form_score <= 100.
C10_FormScoreRange ==
    ex # NoExercise =>
        \A f \in FramesOf(ex.kind), t \in TimesOf(ex.kind) :
            LET a == Run(ex, f, t).ret
            IN  0 <= a.form_score /\ a.form_score <= 100

\* a detector that has already returned an analysis can return the lowest
\* and the highest score of the model
C10_Witness ==
    /\ ex # NoExercise
    /\ last_rep_count # None
    /\ \E f \in FramesOf(ex.kind), t \in TimesOf(ex.kind) :
          Run(ex, f, t).ret.form_score = 0
    /\ \E f \in FramesOf(ex.kind), t \in TimesOf(ex.kind) :
          Run(ex, f, t).ret.form_score = 90

\* c is 100 times the smallest confidence among the required keypoints of f
IsMinRequired(self, f, c) ==
    LET req == SeqRange(required_keypoints(self))
    IN  /\ \E k \in req : f.confidence[k] = c
        /\ \A k \in req : f.confidence[k] >= c

\* C11 as stated: in every analysis returned, gate-failing frames included,
\* confidence is 100 times the minimum confidence among the required
\* keypoints of the frame.
C11_ConfidenceIsMin ==
    ex # NoExercise =>
        \A f \in FramesOf(ex.kind), t \in TimesOf(ex.kind) :
            IsMinRequired(ex, f, Run(ex, f, t).ret.confidence)

\* C11: on a gate-passing frame the confidence of the analysis is 100 times
\* the minimum confidence among the required keypoints; on a gate-failing
\* frame it is 0.
C11_ConfidenceIsMinOrZero ==
    ex # NoExercise =>
        \A f \in FramesOf(ex.kind), t \in TimesOf(ex.kind) :
            LET c == Run(ex, f, t).ret.confidence
            IN  IF BelowGate(ex, f) THEN c = 0 ELSE IsMinRequired(ex, f, c)

\* a detector in use can be fed a gate-passing frame whose required
\* keypoints differ in confidence, and a gate-failing one
C11_Witness ==
    /\ ex # NoExercise
    /\ last_rep_count # None
    /\ \E f \in Passing(ex), k \in SeqRange(required_keypoints(ex)) :
          /\ f.confidence[k] > Run(ex, f, 181).ret.confidence
          /\ Run(ex, f, 181).ret.confidence >= 60
    /\ \E f \in FramesOf(ex.kind) :
          BelowGate(ex, f) /\ Run(ex, f, 181).ret.confidence = 0

----------------------------------------------------------------------------
(* A long ankle session: gate-passing Setup frames of the resting pose, then
   gate-passing Active frames of the moved pose, as many as the angle history
   takes *)

\* one Setup time and one Active time
HistoryTimes == {9, 180}

\* analyze on the next frame of the long session
FeedHistory(elapsed_time) ==
    /\ ex.kind = "ankle_circles"
    /\ Len(ex.angle_history) < AngleHistoryLimit + HistSlack
    /\ ex.phase = ACTIVE => elapsed_time >= 120
    /\ LET p == IF elapsed_time < 120 THEN RestPose ELSE ActionPose
           r == AnkleAnalyze(ex, p, ConfAll(90), elapsed_time)
       IN  /\ ex' = r.self
           /\ last_rep_count' = Some(r.ret.rep_count)
    /\ UNCHANGED <<err, clock, fed, peer, squeeze_entries, rtc, voice>>

NextHistory ==
    \/ \E exercise_type \in ExerciseTypes : GetExercise(exercise_type)
    \/ \E t \in HistoryTimes : FeedHistory(t)

SpecHistory == Init /\ [][NextHistory]_vars

\* C12 as stated: in every reachable state of the ankle detector the angle
\* history holds at most 100 samples.
C12_HistoryBounded ==
    ex.kind = "ankle_circles" => Len(ex.angle_history) <= 100

\* the variant of a detector, by the name it reports
VariantName(self) ==
    CASE self.kind = "shoulder_squeezes" -> "Shoulder Squeezes"
      [] self.kind = "neck_rotations" -> "Neck Rotations"
      [] self.kind = "ankle_circles" -> "Ankle Circles"
      [] OTHER -> ""

\* C13: get_exercise returns a detector of the matching variant for
\* shoulder_squeezes, neck_rotations and ankle_circles, and for every other
\* identifier it fails with the unknown-exercise error and constructs no
\* detector.
C13_GetExercise ==
    [][\A id \in ExerciseTypes :
          GetExercise(id) =>
              CASE id = "shoulder_squeezes" ->
                       err' = "" /\ VariantName(ex') = "Shoulder Squeezes"
                [] id = "neck_rotations" ->
                       err' = "" /\ VariantName(ex') = "Neck Rotations"
                [] id = "ankle_circles" ->
                       err' = "" /\ VariantName(ex') = "Ankle Circles"
                [] OTHER -> err' = "ValueError" /\ ex' = NoExercise]_vars

\* get_exercise has failed on an unknown identifier and no detector exists
C13_Witness == err = "ValueError" /\ ex = NoExercise

----------------------------------------------------------------------------
(* Two sessions side by side: two detectors obtained from the registry, each
   fed frames of its own *)

\* largest number of samples an ankle angle history reaches in the two
\* sessions
PairHist == 3

\* Bind with the two lists of the ankle detector held by the class: every
\* ankle detector sees the lists the last call left
BindClassLists(instances, i, self) ==
    [j \in 1..2 |->
        IF j = i THEN self
        ELSE IF instances[j].kind = "ankle_circles" /\ self.kind = "ankle_circles"
             THEN [instances[j] EXCEPT !.angle_history = self.angle_history,
                                       !.quadrant_visits = self.quadrant_visits]
             ELSE instances[j]]

\* the attributes of a detector are bound on the instance by its __init__
\* and by the assignments of analyze: detector i of the two becomes self,
\* the other one is the object it was
Bind(instances, i, self) == [instances EXCEPT ![i] = self]

PairFrames == {Frame(RestPose, ConfAll(90)), Frame(ActionPose, ConfAll(90))}

PairTimes == {9, 179, 181}

\* the counters of a detector are within the bounds of the two sessions
WithinPair(self) ==
    CASE self.kind = "shoulder_squeezes" -> self.rep_count <= MaxReps
      [] self.kind = "neck_rotations" ->
             self.left_rotations <= MaxReps /\ self.right_rotations <= MaxReps
      [] self.kind = "ankle_circles" -> Len(self.angle_history) <= PairHist

\* the two detectors after a call
Rebound(instances) == ex' = instances[1] /\ peer' = instances[2]

\* get_exercise for the second session
GetSecond(exercise_type) ==
    /\ ex # NoExercise
    /\ peer = NoExercise
    /\ exercise_type \in EXERCISES
    /\ Rebound(Bind(<<ex, peer>>, 2, Construct(exercise_type)))
    /\ UNCHANGED <<last_rep_count, err, clock, fed, squeeze_entries, rtc, voice>>

\* analyze on the detector of the first session
AnalyzeFirst(f, elapsed_time) ==
    /\ ex # NoExercise
    /\ LET r == Run(ex, f, elapsed_time)
       IN  /\ WithinPair(r.self)
           /\ Rebound(Bind(<<ex, peer>>, 1, r.self))
    /\ UNCHANGED <<last_rep_count, err, clock, fed, squeeze_entries, rtc, voice>>

\* analyze on the detector of the second session
AnalyzeSecond(f, elapsed_time) ==
    /\ peer # NoExercise
    /\ LET r == Run(peer, f, elapsed_time)
       IN  /\ WithinPair(r.self)
           /\ Rebound(Bind(<<ex, peer>>, 2, r.self))
    /\ UNCHANGED <<last_rep_count, err, clock, fed, squeeze_entries, rtc, voice>>

NextPair ==
    \/ \E exercise_type \in ExerciseTypes : GetExercise(exercise_type)
    \/ \E exercise_type \in ExerciseTypes : GetSecond(exercise_type)
    \/ \E f \in PairFrames, t \in PairTimes : AnalyzeFirst(f, t)
    \/ \E f \in PairFrames, t \in PairTimes : AnalyzeSecond(f, t)

SpecPair == Init /\ [][NextPair]_vars

\* a detector as its constructor leaves it: counters 0, flags cleared, no
\* baseline, the right ankle active
IsInitial(self) ==
    /\ self.rep_count = 0
    /\ self.phase = NOT_STARTED
    /\ CASE self.kind = "shoulder_squeezes" ->
                ~self.in_squeeze /\ self.baseline_distance = None
         [] self.kind = "neck_rotations" ->
                /\ self.left_rotations = 0
                /\ self.right_rotations = 0
                /\ self.rotation_direction = None
         [] self.kind = "ankle_circles" ->
                /\ self.circle_count = 0
                /\ self.active_ankle = "right"
                /\ self.last_quadrant = None
                /\ self.quadrant_visits = <<>>
                /\ self.angle_history = <<>>

\* C14: every successful get_exercise returns a detector in its initial
\* state, and a call on one of two detectors (its construction, an analyze
\* call) leaves every piece of the other detector's state unchanged.
C14_FreshAndIsolated ==
    [][/\ \A id \in EXERCISES :
            /\ GetExercise(id) => IsInitial(ex') /\ peer' = peer
            /\ GetSecond(id) => IsInitial(peer') /\ ex' = ex
       /\ \A f \in PairFrames, t \in PairTimes :
            /\ AnalyzeFirst(f, t) => peer' = peer
            /\ AnalyzeSecond(f, t) => ex' = ex]_vars

\* two ankle detectors whose sessions have gone different ways
C14_Witness ==
    /\ ex.kind = "ankle_circles"
    /\ peer.kind = "ankle_circles"
    /\ Len(ex.angle_history) = 3
    /\ ex.quadrant_visits # <<>>
    /\ peer.phase = SETUP
    /\ Len(peer.angle_history) = 1

\* C15: the phase of a returned analysis depends only on the elapsed_time
\* of the call and the duration table: whatever calls a detector has seen,
\* it returns the phase a fresh detector returns for that elapsed_time.
C15_PhaseFromTimeOnly ==
    ex # NoExercise =>
        \A f \in FramesOf(ex.kind), t \in TimesOf(ex.kind) :
            /\ Run(ex, f, t).ret.phase = Run(Construct(ex.kind), f, t).ret.phase
            /\ Run(ex, f, t).ret.phase = DefaultPhase(t)

\* a detector that has been told the session is completed is asked about
\* earlier times
C15_Witness ==
    /\ ex # NoExercise
    /\ ex.phase = COMPLETED
    /\ \E f \in FramesOf(ex.kind) :
          /\ Run(ex, f, 9).ret.phase = SETUP
          /\ Run(ex, f, -1).ret.phase = NOT_STARTED

\* a shoulder detector with baseline 100 that is not in a squeeze
Baseline100Relaxed ==
    /\ ex.kind = "shoulder_squeezes"
    /\ ex.baseline_distance = Some(100)
    /\ ~ex.in_squeeze

\* C16 as stated: with baseline 100, in Active and not in a squeeze, a
\* gate-passing frame with shoulder distance <= 80, exactly 80 included,
\* sets in_squeeze and scores 90, and a following frame that stays in the
\* squeeze scores 85.
C16_SqueezeFrom80 ==
    Baseline100Relaxed =>
        \A t \in ActiveTimes : \A f \in Passing(ex) :
            ShoulderDistance(f) <= 80 =>
                LET r == Run(ex, f, t)
                IN  /\ r.self.in_squeeze
                    /\ r.ret.form_score = 90
                    /\ \A g \in Passing(ex) :
                          ShoulderDistance(g) <= 80 =>
                              Run(r.self, g, t).ret.form_score = 85

\* C16: with baseline 100, in Active and not in a squeeze, a gate-passing
\* frame with shoulder distance below 80 sets in_squeeze and scores 90, and
\* a following frame below 80 scores 85 with in_squeeze still set; a frame
\* with distance 80 or more, exactly 80 included, leaves in_squeeze clear.
C16_SqueezeBelow80 ==
    Baseline100Relaxed =>
        \A t \in ActiveTimes : \A f \in Passing(ex) :
            LET r == Run(ex, f, t)
            IN  IF ShoulderDistance(f) < 80
                THEN /\ r.self.in_squeeze
                     /\ r.ret.form_score = 90
                     /\ \A g \in Passing(ex) :
                           ShoulderDistance(g) < 80 =>
                               LET r2 == Run(r.self, g, t)
                               IN  r2.ret.form_score = 85 /\ r2.self.in_squeeze
                ELSE ~r.self.in_squeeze

\* a relaxed shoulder detector with baseline 100 in the Active phase, which
\* can be fed a frame at distance 75 and one at exactly 80
C16_Witness ==
    /\ Baseline100Relaxed
    /\ ex.phase = ACTIVE
    /\ \E f \in Passing(ex) : ShoulderDistance(f) = 75
    /\ \E f \in Passing(ex) : ShoulderDistance(f) = 80

\* elapsed times of the Setup phase, on both sides of the 10 s mark
SetupTimes == {0, 5, 9, 10, 60, 119}

\* C17: every gate-passing Setup frame with elapsed_time < 10 sets the
\* baseline to the shoulder distance of that frame, and a Setup frame that
\* follows it at the same or a later elapsed_time sets the baseline again
\* if it passes the gate with elapsed_time < 10 and leaves it otherwise: the
\* baseline is the distance of the last gate-passing frame before 10 s.
C17_BaselineLastEarlyFrame ==
    ex.kind = "shoulder_squeezes" =>
        /\ \A t \in SetupTimes : \A f \in Passing(ex) :
              t < 10 =>
                  LET s1 == Run(ex, f, t).self
                  IN  /\ s1.baseline_distance = Some(ShoulderDistance(f))
                      /\ \A u \in SetupTimes : \A g \in ShoulderFrames :
                            u >= t =>
                                LET s2 == Run(s1, g, u).self
                                IN  s2.baseline_distance =
                                        IF u < 10 /\ ~BelowGate(ex, g)
                                        THEN Some(ShoulderDistance(g))
                                        ELSE Some(ShoulderDistance(f))
        /\ ex.baseline_distance # None =>
              \A u \in SetupTimes : \A g \in ShoulderFrames :
                  (u >= 10 \/ BelowGate(ex, g)) =>
                      Run(ex, g, u).self.baseline_distance = ex.baseline_distance

\* a shoulder detector in Setup whose baseline was taken from a squeezed
\* frame, and which has been used before that
C17_Witness ==
    /\ ex.kind = "shoulder_squeezes"
    /\ ex.phase = SETUP
    /\ ex.baseline_distance = Some(75)
    /\ ex.rep_count >= 1

\* C18: in every analysis the neck detector returns, gate-passing or
\* gate-failing and in any phase, rep_count is left_rotations +
\* right_rotations as they stand after the call.
C18_RepCountIsSum ==
    ex.kind = "neck_rotations" =>
        \A f \in NeckFrames, t \in ElapsedTimes :
            LET r == Run(ex, f, t)
            IN  r.ret.rep_count = r.self.left_rotations + r.self.right_rotations

\* a neck detector that has counted one rotation to each side and returned 2
C18_Witness ==
    /\ ex.kind = "neck_rotations"
    /\ ex.left_rotations = 1
    /\ ex.right_rotations = 1
    /\ last_rep_count = Some(2)

\* the call that took the detector from before to after added the quadrant
\* to the transition log (which a completed circle empties again)
LogEntryAdded(before, after, quadrant) ==
    \/ after.quadrant_visits = Append(before.quadrant_visits, quadrant)
    \/ /\ after.circle_count = before.circle_count + 1
       /\ after.quadrant_visits = <<>>

\* C19 as stated: of two consecutive gate-passing Active frames of the same
\* ankle, the second adds a log entry exactly when its quadrant differs
\* from the quadrant of the first, also when the first completed a circle.
C19_LoggedIffQuadrantChanged ==
    ex.kind = "ankle_circles" =>
        \A t \in AnkleActiveTimes : \A f \in Passing(ex) :
            ~SwitchingFrame(ex, t) =>
                LET s1 == Run(ex, f, t).self
                IN  \A g \in Passing(ex) :
                        LET s2 == Run(s1, g, t).self
                        IN  LogEntryAdded(s1, s2, TrackedQuadrant(s1, g))
                                <=> TrackedQuadrant(s1, g) # TrackedQuadrant(ex, f)

\* confidences a keypoint the detector does not require is given
StrayConfidences == {0, 59}

\* C20: check_confidence returns true if and only if every required
\* keypoint has a confidence >= 0.6 (exactly 0.6 passes), and the
\* confidences of the keypoints that are not required never change the
\* result.
C20_GateIffAllRequired ==
    ex # NoExercise =>
        LET req == required_keypoints(ex)
        IN  \A f \in FramesOf(ex.kind) :
              /\ check_confidence(ex, f.confidence, req)
                    <=> \A k \in SeqRange(req) : f.confidence[k] >= 60
              /\ \A k \in KeypointIndices \ SeqRange(req), c \in StrayConfidences :
                    check_confidence(ex, [f.confidence EXCEPT ![k] = c], req)
                        = check_confidence(ex, f.confidence, req)

\* a detector in use is shown a frame with every keypoint exactly at 0.6,
\* which passes, and one with a required keypoint at 0.59, which does not
C20_Witness ==
    /\ ex # NoExercise
    /\ last_rep_count # None
    /\ \E f \in FramesOf(ex.kind) :
          /\ \A k \in KeypointIndices : f.confidence[k] = 60
          /\ check_confidence(ex, f.confidence, required_keypoints(ex))
    /\ \E f \in FramesOf(ex.kind) :
          /\ \E k \in SeqRange(required_keypoints(ex)) : f.confidence[k] = 59
          /\ ~check_confidence(ex, f.confidence, required_keypoints(ex))

\* the detector with the circles counted so far forgotten
WithoutCircles(self) == [self EXCEPT !.circle_count = 0, !.rep_count = 0]

\* frame f completes a circle of the tracked ankle
CompletesCircle(self, f) == LogsTransition(self, f) /\ FourDistinct(self, f)

\* C21: on the call that switches active_ankle from right to left (a
\* gate-passing Active call with elapsed_time > 180 on a detector tracking
\* the right ankle) circle_count becomes 0, the transition log empty and
\* last_quadrant unset, and the returned rep_count is 0 even if the frame
\* completed a right-ankle circle; the detector the call leaves is the one it
\* leaves when no right-ankle circle was ever counted, so the right-ankle
\* circles enter no later rep_count, and the next call returns the circles
\* of the left ankle only.
C21_SwitchResets ==
    (ex.kind = "ankle_circles" /\ ex.active_ankle = "right") =>
        \A f \in Passing(ex), t \in AnkleActiveTimes :
            t > 180 =>
                LET r == Run(ex, f, t)
                IN  /\ r.self.active_ankle = "left"
                    /\ r.self.circle_count = 0
                    /\ r.self.quadrant_visits = <<>>
                    /\ r.self.last_quadrant = None
                    /\ r.ret.rep_count = 0
                    /\ r.self = Run(WithoutCircles(ex), f, t).self
                    /\ \A g \in AnkleFrames, u \in AnkleTimes :
                          LET r2 == Run(r.self, g, u)
                          IN  /\ r2.ret.rep_count = r2.self.circle_count
                              /\ r2.ret.rep_count = 0

\* a detector tracking the right ankle can be fed a frame that completes a
\* circle: at 180 s the circle is reported, at 181 s the same frame switches
\* the ankle and reports 0
C21_Witness ==
    /\ ex.kind = "ankle_circles"
    /\ ex.active_ankle = "right"
    /\ \E f \in Passing(ex) :
          /\ CompletesCircle(ex, f)
          /\ Run(ex, f, 181).ret.rep_count = 0
          /\ Run(ex, f, 180).ret.rep_count = ex.circle_count + 1

----------------------------------------------------------------------------
(* A detector configured with required keypoints of its own: a subclass of
   BaseExercise whose required_keypoints property returns a given list,
   instantiated and then asked for its confidence gate *)

\* longest list of required keypoints the configured detector is given
MaxRequired == 3

\* indices a configuration lists: the ends of the 17-point range and the
\* integers next to them
IndexChoices == {-1, 0, 16, 17}

RECURSIVE ListsUpTo(_)
ListsUpTo(n) ==
    IF n = 0 THEN {<<>>}
    ELSE LET shorter == ListsUpTo(n - 1)
         IN  shorter \cup {Append(l, i) : l \in {s \in shorter : Len(s) = n - 1},
                                          i \in IndexChoices}

RequiredLists == ListsUpTo(MaxRequired) \ {<<>>}

\* the subclass instance as BaseExercise.__init__ leaves it: the constructor
\* sets the base fields and never reads required_keypoints
CustomInit(required) ==
    [kind |-> "custom", required_keypoints |-> required] @@ BaseInit

\* instantiation of the configured detector
Instantiate(required) ==
    /\ ex = NoExercise
    /\ ex' = CustomInit(required)
    /\ err' = ""
    /\ UNCHANGED <<last_rep_count, clock, fed, peer, squeeze_entries, rtc, voice>>

\* confidence[idx] on an array of 17 entries: an index from -17 to -1 counts
\* from the end, any other index outside 0..16 raises IndexError
Indexable(idx) == idx \in (0 - 17)..16

ArrayAt(confidence, idx) ==
    IF idx < 0 THEN confidence[idx + 17] ELSE confidence[idx]

\* the loop of check_confidence from list position n on, on a list whose
\* indices need not be in range: "True", "False" or "IndexError"
RECURSIVE CheckConfidenceFrom(_, _, _, _)
CheckConfidenceFrom(self, confidence, required_indices, n) ==
    IF n > Len(required_indices) THEN "True"
    ELSE IF ~Indexable(required_indices[n]) THEN "IndexError"
    ELSE IF ArrayAt(confidence, required_indices[n]) < self.confidence_threshold
         THEN "False"
         ELSE CheckConfidenceFrom(self, confidence, required_indices, n + 1)

\* check_confidence called on the configured detector, as analyze does
CheckGate(confidence) ==
    /\ ex.kind = "custom"
    /\ LET res == CheckConfidenceFrom(ex, confidence, ex.required_keypoints, 1)
       IN  err' = IF res = "IndexError" THEN "IndexError" ELSE ""
    /\ UNCHANGED <<ex, last_rep_count, clock, fed, peer, squeeze_entries, rtc, voice>>

GateFrames == {ConfAll(90), ConfLow(RIGHT_ANKLE)}

NextConfig ==
    \/ \E exercise_type \in ExerciseTypes : GetExercise(exercise_type)
    \/ \E required \in RequiredLists : Instantiate(required)
    \/ \E confidence \in GateFrames : CheckGate(confidence)

SpecConfig == Init /\ [][NextConfig]_vars

\* C22 as stated: a detector whose required keypoints include an index
\* outside 0..16 is never instantiated (construction fails with a
\* configuration error), and the required indices of the three shipped
\* detectors are all in 0..16.
C22_MalformedIndexFatal ==
    /\ ex.kind = "custom" =>
          \A n \in DOMAIN ex.required_keypoints :
              ex.required_keypoints[n] \in KeypointIndices
    /\ ex.kind \in EXERCISES =>
          SeqRange(required_keypoints(ex)) \subseteq KeypointIndices

----------------------------------------------------------------------------
(* Bearings: the ankle placed in each of the eight compass directions from
   the knee, and on the knee itself *)

BearingOffsets == {-1, 0, 1}

\* gate-passing frames with the ankles dx to the side of and dy below the
\* knees
BearingFrames ==
    {Frame(Pose(0, 50, dx, dy), ConfAll(90)) : dx \in BearingOffsets,
                                               dy \in BearingOffsets}

\* an angle of (-180, 180] brought into [0, 360)
Normalized(angle) == IF angle < 0 THEN angle + 360 ELSE angle

\* the quadrant whose range [0,90), [90,180), [180,270) or [270,360) holds
\* the normalized angle
RangeQuadrant(normalized) ==
    CHOOSE q \in 1..4 : 90 * (q - 1) <= normalized /\ normalized < 90 * q

\* the payload of the analysis of frame f at time t
Payload(self, f, t) == Run(self, f, t).ret.exercise_specific_data

\* C23: for every bearing the ankle detector computes, negative ones
\* included, the quadrant is 1 when the angle normalized into [0,360) lies
\* in [0,90), 2 for [90,180), 3 for [180,270) and 4 for [270,360): one
\* quadrant of 1..4 for every angle, each lower bound in its own range.
C23_QuadrantOfBearing ==
    ex.kind = "ankle_circles" =>
        \A f \in BearingFrames, t \in AnkleTimes :
            LET d == Payload(ex, f, t)
                n == Normalized(d.current_angle)
            IN  /\ n \in 0..359
                /\ d.current_quadrant \in 1..4
                /\ d.current_quadrant = RangeQuadrant(n)
                /\ n \in {0, 90, 180, 270} => d.current_quadrant = (n \div 90) + 1

\* a detector tracking the left ankle is shown the bearings -90 and -135
\* degrees and 180 degrees, which fall in quadrants 4, 3 and 3
C23_Witness ==
    /\ ex.kind = "ankle_circles"
    /\ ex.active_ankle = "left"
    /\ \E f \in BearingFrames :
          Payload(ex, f, 181).current_angle = -90
              /\ Payload(ex, f, 181).current_quadrant = 4
    /\ \E f \in BearingFrames :
          Payload(ex, f, 181).current_angle = -135
              /\ Payload(ex, f, 181).current_quadrant = 3
    /\ \E f \in BearingFrames :
          Payload(ex, f, 181).current_angle = 180
              /\ Payload(ex, f, 181).current_quadrant = 3

\* C24 as stated: the current_angle of every analysis the ankle detector
\* returns with a payload is in [0, 360), never negative, for every position
\* of the ankle relative to the knee.
C24_AngleNonNegative ==
    ex.kind = "ankle_circles" =>
        \A f \in BearingFrames, t \in AnkleTimes :
            LET d == Payload(ex, f, t)
            IN  0 <= d.current_angle /\ d.current_angle < 360

\* C25 as stated: after every update_phase call, whatever the elapsed time
\* (negative ones included) and whatever calls came before, the cached
\* phase of the detector is the phase the call returned.
C25_CacheIsReturned ==
    (ex # NoExercise /\ clock # None) => ex.phase = clock[1].phase

\* a detector has counted something or holds a hysteresis flag
HasProgress(self) ==
    CASE self.kind = "shoulder_squeezes" -> self.rep_count >= 1 /\ self.in_squeeze
      [] self.kind = "neck_rotations" ->
             self.left_rotations >= 1 /\ self.rotation_direction # None
      [] self.kind = "ankle_circles" ->
             self.quadrant_visits # <<>> /\ self.angle_history # <<>>
      [] OTHER -> FALSE

\* C26: for each of the three detectors, an analyze call on which the
\* confidence gate fails changes no field of the detector other than the
\* cached phase: baseline, in_squeeze, rep_count, rotation_direction,
\* left_rotations, right_rotations, circle_count, transition log,
\* last_quadrant, angle history and active_ankle are all left as they were.
C26_GateFailureKeepsState ==
    ex # NoExercise =>
        \A f \in FramesOf(ex.kind), t \in TimesOf(ex.kind) :
            BelowGate(ex, f) =>
                LET after == Run(ex, f, t).self
                IN  /\ [after EXCEPT !.phase = ex.phase] = ex
                    /\ after.phase = IF t < 0 THEN ex.phase ELSE DefaultPhase(t)

\* a detector with progress to lose is fed a gate-failing frame at a time of
\* another phase than the cached one
C26_Witness ==
    /\ ex # NoExercise
    /\ HasProgress(ex)
    /\ ex.phase = ACTIVE
    /\ \E f \in FramesOf(ex.kind) :
          BelowGate(ex, f) /\ Run(ex, f, 9).self.phase = SETUP

\* the rep counters and the hysteresis state of a detector
Hysteresis(self) ==
    CASE self.kind = "shoulder_squeezes" -> <<self.rep_count, self.in_squeeze>>
      [] self.kind = "neck_rotations" ->
             <<self.left_rotations, self.right_rotations, self.rotation_direction>>
      [] self.kind = "ankle_circles" -> AnkleCore(self)

AllTimes == ElapsedTimes \cup SetupTimes

\* C28 as stated: the baseline of the shoulder detector is modified only by
\* gate-passing Setup frames with elapsed_time < 10; no frame with
\* elapsed_time >= 10 and no frame of another phase assigns or changes it.
C28_BaselineOnlyBefore10 ==
    ex.kind = "shoulder_squeezes" =>
        \A f \in ShoulderFrames, t \in AllTimes :
            Run(ex, f, t).self.baseline_distance # ex.baseline_distance =>
                /\ ~BelowGate(ex, f)
                /\ DefaultPhase(t) = SETUP
                /\ t < 10

\* C28: the baseline of the shoulder detector is modified only by
\* gate-passing Setup frames that come with elapsed_time < 10 or while no
\* baseline has been captured yet, and each such frame sets it to its
\* shoulder distance; once a baseline is captured no frame with
\* elapsed_time >= 10 changes it, and no frame of another phase and no
\* gate-failing frame ever assigns it.
C28_BaselineOnlyInSetup ==
    ex.kind = "shoulder_squeezes" =>
        \A f \in ShoulderFrames, t \in AllTimes :
            LET after == Run(ex, f, t).self
            IN  IF /\ ~BelowGate(ex, f)
                   /\ DefaultPhase(t) = SETUP
                   /\ (t < 10 \/ ex.baseline_distance = None)
                THEN after.baseline_distance = Some(ShoulderDistance(f))
                ELSE after.baseline_distance = ex.baseline_distance

\* a shoulder detector that has been called but captured no baseline yet
\* gets its first gate-passing frame 60 s into Setup, which sets the
\* baseline; one with a baseline keeps it on the same frame
C28_Witness ==
    /\ ex.kind = "shoulder_squeezes"
    /\ ex.phase = SETUP
    /\ ex.baseline_distance = None
    /\ \E f \in Passing(ex) :
          /\ Run(ex, f, 60).self.baseline_distance = Some(ShoulderDistance(f))
          /\ \E g \in Passing(ex) :
                /\ ShoulderDistance(g) # ShoulderDistance(f)
                /\ Run(Run(ex, f, 60).self, g, 60).self.baseline_distance
                       = Some(ShoulderDistance(f))

\* the analysis shows that the squeeze percentage was computed: the branch
\* that divides by the baseline always leaves a feedback message
SqueezeBranchRan(ret) == ret.feedback_messages # <<>>

\* C29: when the shoulder detector has no baseline, or a baseline of 0,
\* every Active frame leaves in_squeeze and rep_count unchanged and the
\* squeeze percentage is not computed; in every reachable state an Active
\* frame computes the squeeze percentage only with a non-zero baseline.
C29_NoBaselineNoSqueeze ==
    ex.kind = "shoulder_squeezes" =>
        \A f \in ShoulderFrames, t \in ActiveTimes :
            LET r == Run(ex, f, t)
            IN  /\ (ex.baseline_distance = None \/ ex.baseline_distance = Some(0)) =>
                      /\ r.self.in_squeeze = ex.in_squeeze
                      /\ r.self.rep_count = ex.rep_count
                      /\ ~BelowGate(ex, f) =>
                            ~SqueezeBranchRan(r.ret) /\ r.ret.form_score = 70
                /\ (~BelowGate(ex, f) /\ SqueezeBranchRan(r.ret)) =>
                      /\ ex.baseline_distance # None
                      /\ ex.baseline_distance[1] # 0

\* a shoulder detector that entered a squeeze and then captured a baseline
\* of 0 is in Active again: a relaxed Active frame changes nothing, the
\* held squeeze is not released
C29_Witness ==
    /\ ex.kind = "shoulder_squeezes"
    /\ ex.phase = ACTIVE
    /\ ex.baseline_distance = Some(0)
    /\ ex.in_squeeze
    /\ \E f \in Passing(ex) :
          ShoulderDistance(f) = 100 /\ Run(ex, f, 180).self = ex

----------------------------------------------------------------------------
(* A shoulder session with the squeeze entries counted: beside the detector,
   the number of frames on which in_squeeze went from false to true *)

\* 1 for a true flag, 0 for a false one
Count(flag) == IF flag THEN 1 ELSE 0

\* analyze on the shoulder detector, the squeeze entries counted
AnalyzeCounting(keypoints, confidence, elapsed_time) ==
    /\ ex.kind = "shoulder_squeezes"
    /\ LET r == ShoulderAnalyze(ex, keypoints, confidence, elapsed_time)
           entered == ~ex.in_squeeze /\ r.self.in_squeeze
       IN  /\ r.self.rep_count <= MaxReps
           /\ squeeze_entries + Count(entered) <= MaxReps + 1
           /\ ex' = r.self
           /\ last_rep_count' = Some(r.ret.rep_count)
           /\ squeeze_entries' = squeeze_entries + Count(entered)
    /\ UNCHANGED <<err, clock, fed, peer, rtc, voice>>

NextSqueeze ==
    \/ \E exercise_type \in ExerciseTypes : GetExercise(exercise_type)
    \/ \E f \in ShoulderFrames, t \in ElapsedTimes :
          AnalyzeCounting(f.keypoints, f.confidence, t)

SpecSqueeze == Init /\ [][NextSqueeze]_vars

\* C30: in every reachable state of the shoulder detector, rep_count plus 1
\* if in_squeeze is set equals the number of frames so far on which
\* in_squeeze was set from false to true; so rep_count never exceeds the
\* number of squeeze entries and each entry is counted at most once.
C30_EntriesAccounted ==
    ex.kind = "shoulder_squeezes" =>
        /\ ex.rep_count + Count(ex.in_squeeze) = squeeze_entries
        /\ ex.rep_count <= squeeze_entries

\* the detector has counted the first squeeze and is holding the second
C30_Witness ==
    /\ ex.kind = "shoulder_squeezes"
    /\ ex.rep_count = 1
    /\ ex.in_squeeze
    /\ squeeze_entries = 2

\* the target side of the half of the session an elapsed time falls in
TargetAt(elapsed_time) == IF elapsed_time < 180 THEN "left" ELSE "right"

\* Active times of the two halves of the neck session
HalfTimes(target) ==
    IF target = "left" THEN {120, 150, 179} ELSE {180, 181, 239}

\* nose offset of a frame from the shoulder midpoint, in half pixels
OffsetX2(f) ==
    2 * f.keypoints[NOSE][1]
        - (f.keypoints[LEFT_SHOULDER][1] + f.keypoints[RIGHT_SHOULDER][1])

\* the frame is an excursion beyond the 30 px threshold to the given side
ExcursionTo(side, f) ==
    IF side = "left" THEN OffsetX2(f) < -60 ELSE OffsetX2(f) > 60

OtherSide(side) == IF side = "left" THEN "right" ELSE "left"

\* rotations counted on a side
Rotations(self, side) ==
    IF side = "left" THEN self.left_rotations ELSE self.right_rotations

\* C31: the tracked rotation direction of the neck detector is cleared only
\* by a gate-passing Active frame inside the dead zone (|offset| <= 30 px,
\* exactly 30 and -30 included), and every such frame clears it; an excursion
\* to the side that is not the target of the half leaves direction and
\* counters unchanged, so within one half the frames target excursion,
\* opposite excursion, target excursion count exactly one rotation when the
\* first of them starts a new excursion (and none when the detector was in
\* the target excursion already).
C31_ClearedOnlyInDeadZone ==
    ex.kind = "neck_rotations" =>
        /\ \A f \in NeckFrames, t \in ElapsedTimes \cup HalfTimes("left") :
              LET after == Run(ex, f, t).self
                  live == ~BelowGate(ex, f) /\ DefaultPhase(t) = ACTIVE
              IN  /\ (ex.rotation_direction # None /\ after.rotation_direction = None)
                        => (live /\ Abs(OffsetX2(f)) <= 60)
                  /\ (live /\ Abs(OffsetX2(f)) <= 60)
                        => after.rotation_direction = None
                  /\ (live /\ ExcursionTo(OtherSide(TargetAt(t)), f))
                        => Hysteresis(after) = Hysteresis(ex)
        /\ \A side \in {"left", "right"} :
              \A a \in Passing(ex), b \in Passing(ex), c \in Passing(ex) :
                  (/\ ExcursionTo(side, a)
                   /\ ExcursionTo(OtherSide(side), b)
                   /\ ExcursionTo(side, c)) =>
                      \A t1 \in HalfTimes(side), t2 \in HalfTimes(side),
                         t3 \in HalfTimes(side) :
                          LET s1 == Run(ex, a, t1).self
                              s2 == Run(s1, b, t2).self
                              s3 == Run(s2, c, t3).self
                          IN  /\ Rotations(s3, side) = Rotations(ex, side)
                                    + Count(ex.rotation_direction # Some(side))
                              /\ Rotations(s3, OtherSide(side))
                                    = Rotations(ex, OtherSide(side))
                              /\ s3.rotation_direction = Some(side)

\* a neck detector in a counted left excursion, in the Active phase, is shown
\* the nose beyond the threshold on the right and exactly on the threshold
C31_Witness ==
    /\ ex.kind = "neck_rotations"
    /\ ex.phase = ACTIVE
    /\ ex.rotation_direction = Some("left")
    /\ ex.left_rotations = 1
    /\ \E f \in Passing(ex) :
          ExcursionTo("right", f) /\ Run(ex, f, 150).self = ex
    /\ \E f \in Passing(ex) :
          OffsetX2(f) = -60 /\ Run(ex, f, 150).self.rotation_direction = None

----------------------------------------------------------------------------
(* An ankle session that goes on after the switch: frames of the four
   diagonal ankle positions, before and after 180 s in any order, until the
   left ankle has had the time to complete a circle *)

\* number of samples the angle history reaches in this session
LeftHist == 6

\* the gate-passing frames of the four diagonal positions and a gate-failing
\* one
LeftFrames ==
    {Frame(Pose(0, 50, dx, dy), ConfAll(90)) : dx \in {-1, 1}, dy \in {-1, 1}}
    \cup {Frame(ActionPose, ConfLow(RIGHT_ANKLE))}

\* Active times on both sides of the switch time
LeftTimes == {150, 181}

\* analyze on the next frame of the session
FeedLeft(f, elapsed_time) ==
    /\ ex.kind = "ankle_circles"
    /\ Len(ex.angle_history) < LeftHist
    /\ LET r == AnkleAnalyze(ex, f.keypoints, f.confidence, elapsed_time)
       IN  /\ ex' = r.self
           /\ last_rep_count' = Some(r.ret.rep_count)
    /\ UNCHANGED <<err, clock, fed, peer, squeeze_entries, rtc, voice>>

NextLeft ==
    \/ \E exercise_type \in ExerciseTypes : GetExercise(exercise_type)
    \/ \E f \in LeftFrames, t \in LeftTimes : FeedLeft(f, t)

SpecLeft == Init /\ [][NextLeft]_vars

\* C32: once active_ankle is left it stays left and circle_count is never
\* reset again: every later call, at whatever elapsed_time (times back below
\* 180 included), in whatever phase and whether the gate passes or not,
\* leaves active_ankle left and circle_count as it was or one higher; the
\* switch is made only by calls that find active_ankle right.
C32_SwitchOneWay ==
    (ex.kind = "ankle_circles" /\ ex.active_ankle = "left") =>
        \A f \in AnkleFrames, t \in AnkleTimes \cup LeftTimes :
            LET r == Run(ex, f, t)
            IN  /\ r.self.active_ankle = "left"
                /\ r.self.circle_count \in {ex.circle_count, ex.circle_count + 1}
                /\ r.ret.rep_count >= ex.circle_count
                /\ Msg("Switch to left ankle circles")
                       \notin SeqRange(r.ret.feedback_messages)

\* the left ankle has completed a circle and the detector is called again
\* after 180 s and, going back, before
C32_Witness ==
    /\ ex.kind = "ankle_circles"
    /\ ex.active_ankle = "left"
    /\ ex.circle_count = 1
    /\ \E f \in Passing(ex) :
          /\ Run(ex, f, 181).ret.rep_count = 1
          /\ Run(ex, f, 150).ret.rep_count = 1
          /\ Run(ex, f, 9).self.active_ankle = "left"

\* position of a phase in the order NotStarted, Setup, Active, Cooldown,
\* Completed
PhaseRank(phase) ==
    CASE phase = NOT_STARTED -> 0
      [] phase = SETUP -> 1
      [] phase = ACTIVE -> 2
      [] phase = COOLDOWN -> 3
      [] phase = COMPLETED -> 4

\* a gate-passing and a gate-failing frame
ClockFrames == {Frame(RestPose, ConfAll(60)), Frame(RestPose, ConfAll(59))}

\* the phases a call at elapsed time t returns: from update_phase and, for
\* a shipped detector, in the analysis of analyze
LaterPhases(self, t) ==
    {update_phase(self, t).phase}
    \cup (IF self.kind \in EXERCISES
          THEN {Run(self, f, t).ret.phase : f \in ClockFrames}
          ELSE {})

\* C33: when a call is followed by a call with the same or a larger
\* elapsed_time, the phase the later call returns is not earlier in the
\* order NotStarted, Setup, Active, Cooldown, Completed than the phase the
\* earlier call returned, and after Completed it is Completed; along a
\* sequence of calls with non-decreasing elapsed_time the phases never move
\* backwards.
C33_PhasesNeverGoBack ==
    (ex # NoExercise /\ clock # None) =>
        \A t \in ClockTimes :
            t >= clock[1].elapsed_time =>
                \A p \in LaterPhases(ex, t) :
                    /\ PhaseRank(p) >= PhaseRank(clock[1].phase)
                    /\ clock[1].phase = COMPLETED => p = COMPLETED

\* the ankle detector has been told at 300 s that the session is completed
\* and can be called at later times
C33_Witness ==
    /\ ex.kind = "ankle_circles"
    /\ clock = Some([elapsed_time |-> 300, phase |-> COMPLETED])
    /\ \E t \in ClockTimes : t > 300 /\ LaterPhases(ex, t) = {COMPLETED}

----------------------------------------------------------------------------
(* The WebRTC endpoint of the server: /offer requests, the datachannel and
   track events of the peer connections they create, and the frames that
   arrive on the PoseTrack of a connection.  Each handler runs to its next
   await without interruption (one asyncio event loop). *)

\* the data channel a peer connection's client opens
Channel(pc) == [pc |-> pc]

\* offer, up to its first await: a peer connection is created and kept, the
\* global channel reference is cleared, the event handlers are registered
Offer(pc) ==
    /\ pc \notin pcs
    /\ pcs' = pcs \cup {pc}
    /\ current_data_channel' = None
    /\ UNCHANGED <<pose_tracks, sent, detectors, voice>>

\* on_datachannel of the connection pc, for a channel its client opens (a
\* client may open more than one): the channel becomes the global one
OnDatachannel(pc) ==
    /\ pc \in pcs
    /\ current_data_channel # Some(Channel(pc))
    /\ current_data_channel' = Some(Channel(pc))
    /\ UNCHANGED <<pcs, pose_tracks, sent, detectors, voice>>

\* on_track of the connection pc, for its video track: a PoseTrack is
\* created with the channel that is the global one at that moment
OnTrack(pc) ==
    /\ pc \in pcs
    /\ \A track \in pose_tracks : track.pc # pc
    /\ pose_tracks' = pose_tracks
                        \cup {[pc |-> pc, data_channel |-> current_data_channel]}
    /\ UNCHANGED <<pcs, current_data_channel, sent, detectors, voice>>

\* PoseTrack.recv on a frame of the connection pc: the keypoint message is
\* sent on the channel the global reference names, if it names one
Recv(pc) ==
    /\ \E track \in pose_tracks : track.pc = pc
    /\ sent' = IF current_data_channel # None
               THEN sent \cup {[frame_of |-> pc,
                                channel_of |-> current_data_channel[1].pc]}
               ELSE sent
    /\ UNCHANGED <<pcs, current_data_channel, pose_tracks, detectors, voice>>

NextOffer ==
    \/ \E pc \in PeerConnections : Offer(pc)
    \/ \E pc \in PeerConnections : OnDatachannel(pc)
    \/ \E pc \in PeerConnections : OnTrack(pc)
    \/ \E pc \in PeerConnections : Recv(pc)

SpecOffer == Init /\ [][NextOffer]_vars

\* C34 as stated: with two or more peer connections open, the keypoint
\* message produced from a frame of one connection's video track is sent
\* only on a data channel of that same connection.
C34_SentOnOwnChannel ==
    \A message \in sent : message.channel_of = message.frame_of

----------------------------------------------------------------------------
(* The /voice-coach-agents endpoint of the server, with the Agents SDK
   available: every websocket session is served by a handler of its own, all
   handlers use the one global AgentVoiceCoach *)

\* AgentVoiceCoach.start_session
start_session(self) == [self EXCEPT !.pipeline = Some("VoicePipeline"),
                                    !.is_active = TRUE]

\* AgentVoiceCoach.stop_session
stop_session(self) == [self EXCEPT !.is_active = FALSE, !.pipeline = None]

\* AgentVoiceCoach.process_audio: the session-not-active exception, or the
\* audio of the pipeline
process_audio(self) ==
    IF ~self.is_active \/ self.pipeline = None
    THEN "Voice coach session not active"
    ELSE "audio_response"

\* the ways a session ends: the client disconnects, it sends stop_session,
\* an exception leaves the message loop
Endings == {"disconnect", "stop_session", "error"}

\* the handler accepts the websocket and starts the session
VoiceAccept(s) ==
    /\ handlers[s] = "closed"
    /\ agent_voice_coach' = start_session(agent_voice_coach)
    /\ handlers' = [handlers EXCEPT ![s] = "running"]
    /\ UNCHANGED <<replies, detectors, rtc>>

\* an audio_data message of session s: process_audio is called and its
\* audio, or the error it raised, is sent back; the handler goes on
VoiceAudio(s) ==
    /\ handlers[s] = "running"
    /\ replies' = [replies EXCEPT ![s] = process_audio(agent_voice_coach)]
    /\ UNCHANGED <<agent_voice_coach, handlers, detectors, rtc>>

\* the session s ends: the finally clause stops the global coach
VoiceEnd(s, ending) ==
    /\ handlers[s] = "running"
    /\ agent_voice_coach' = stop_session(agent_voice_coach)
    /\ handlers' = [handlers EXCEPT ![s] = ending]
    /\ UNCHANGED <<replies, detectors, rtc>>

NextVoice ==
    \/ \E s \in VoiceSessions : VoiceAccept(s)
    \/ \E s \in VoiceSessions : VoiceAudio(s)
    \/ \E s \in VoiceSessions, ending \in Endings : VoiceEnd(s, ending)

SpecVoice == Init /\ [][NextVoice]_vars

\* C35 as stated: with two voice sessions active at once, the end of one
\* does not deactivate voice coaching for the other: while the handler of a
\* session is running, process_audio never fails for it with the
\* session-not-active error.
C35_EndLeavesOthersActive ==
    \A s \in VoiceSessions :
        handlers[s] = "running" =>
            replies[s] # "Voice coach session not active"

====
